---- MODULE Spec2Model ----
(***************************************************************************)
(* The DAG parquet_to_bq_dag of dags/ingest-parquet-to-bigquery.py: two    *)
(* PythonOperator tasks, generate_parquet >> upload_to_bigquery, run by    *)
(* the Airflow scheduler with retries = 1.  Several DAG runs may be active *)
(* at once; they share the local file PARQUET_FILE, the BigQuery dataset   *)
(* and the destination table.                                              *)
(***************************************************************************)
EXTENDS Integers, Sequences, FiniteSets

\* Number of DAG runs that are active at the same time.
NumRuns == 2

Runs == 1..NumRuns

\* default_args["retries"]
Retries == 1

VARIABLES
    task_generate,  \* [Runs -> task instance state of generate_parquet]
    task_upload,    \* [Runs -> task instance state of upload_to_bigquery]
    gen_tries,      \* [Runs -> attempts of generate_parquet started so far]
    up_tries,       \* [Runs -> attempts of upload_to_bigquery started so far]
    gen_pc,         \* [Runs -> position inside generate_parquet()]
    up_pc,          \* [Runs -> position inside upload_parquet_to_bigquery()]
    tmpShared,      \* the two tasks see the same /tmp (one worker filesystem)
    artifact,       \* the file PARQUET_FILE on the producer's filesystem
    datasetExists,  \* PROJECT_ID.DATASET_ID exists in the warehouse
    table,          \* rows of PROJECT_ID.DATASET_ID.TABLE_ID
    job,            \* [Runs -> load job of the current loader attempt]
    calls,          \* [Runs -> warehouse calls of the current loader attempt]
    error,          \* [Runs -> exception that ended the last loader attempt]
    dsAtInvoke      \* [Runs -> datasetExists when the loader attempt started,
                    \*          kept while the attempt ensures the dataset]

vars == <<task_generate, task_upload, gen_tries, up_tries, gen_pc, up_pc,
          tmpShared, artifact, datasetExists, table, job, calls, error,
          dsAtInvoke>>

schedVars == <<task_generate, task_upload, gen_tries, up_tries>>

(***************************************************************************)
(* Data: the DataFrame, the parquet file and the table rows.               *)
(***************************************************************************)

\* faulty variant: the DataFrame loses its last record
SampleFrame_Short ==
    [name |-> <<"Alice", "Bob">>,
     age  |-> <<25, 30>>,
     city |-> <<"New York", "Los Angeles">>]

\* pd.DataFrame({...}): a column-oriented frame
SampleFrame ==
    [name |-> <<"Alice", "Bob", "Charlie">>,
     age  |-> <<25, 30, 35>>,
     city |-> <<"New York", "Los Angeles", "Chicago">>]

EmptyFrame == [name |-> <<>>, age |-> <<>>, city |-> <<>>]

\* A file is absent, partially written (no valid parquet footer) or complete.
NoFile == [state |-> "absent", data |-> EmptyFrame]

PartialFile == [state |-> "partial", data |-> EmptyFrame]

\* pa.Table.from_pandas(df) followed by pq.write_table: the columns as written
ParquetFile(df) == [state |-> "complete", data |-> df]

\* The load job decodes the columnar file into rows (autodetected schema).
DecodeRows(cols) ==
    [i \in 1..Len(cols.name) |-> <<cols.name[i], cols.age[i], cols.city[i]>>]

\* faulty variant: write_disposition = WRITE_APPEND
ApplyLoad_Append(tbl, rows) == tbl \o rows

\* write_disposition = "WRITE_TRUNCATE": the load replaces the table contents
ApplyLoad(tbl, rows) == rows

OldRow == <<"Dave", 40, "Boston">>

\* Table contents before the first run (empty also stands for "no table").
PriorTables == {<<>>, <<OldRow>>}

NoJob == [state |-> "none", payload |-> NoFile]

Call(op, result) == [op |-> op, result |-> result]

(***************************************************************************)
(* Initial state: nothing scheduled yet; the environment is arbitrary.     *)
(***************************************************************************)
Init ==
    /\ task_generate = [r \in Runs |-> "none"]
    /\ task_upload = [r \in Runs |-> "none"]
    /\ gen_tries = [r \in Runs |-> 0]
    /\ up_tries = [r \in Runs |-> 0]
    /\ gen_pc = [r \in Runs |-> "idle"]
    /\ up_pc = [r \in Runs |-> "idle"]
    /\ tmpShared \in BOOLEAN
    /\ artifact \in {NoFile, ParquetFile(SampleFrame)}
    /\ datasetExists \in BOOLEAN
    /\ table \in (IF datasetExists THEN PriorTables ELSE {<<>>})
    /\ job = [r \in Runs |-> NoJob]
    /\ calls = [r \in Runs |-> <<>>]
    /\ error = [r \in Runs |-> "none"]
    /\ dsAtInvoke = [r \in Runs |-> FALSE]

(***************************************************************************)
(* Scheduler: retry policy and the edge task_generate >> task_upload.      *)
(***************************************************************************)

\* faulty variant: one retry too many
AfterFailure_RetryTwice(tries) ==
    IF tries <= Retries + 1 THEN "up_for_retry" ELSE "failed"

\* State of a task instance whose attempt number `tries` raised.
AfterFailure(tries) == IF tries <= Retries THEN "up_for_retry" ELSE "failed"

\* faulty variant: the edge is missing, the loader has no upstream
UpstreamSucceeded_NoEdge(r) == TRUE

\* task_generate >> task_upload with the default trigger rule all_success
UpstreamSucceeded(r) == task_generate[r] = "success"

(***************************************************************************)
(* generate_parquet                                                        *)
(***************************************************************************)

\* The scheduler starts an attempt of generate_parquet.
StartGenerate(r) ==
    /\ task_generate[r] \in {"none", "up_for_retry"}
    /\ task_generate' = [task_generate EXCEPT ![r] = "running"]
    /\ gen_tries' = [gen_tries EXCEPT ![r] = @ + 1]
    /\ gen_pc' = [gen_pc EXCEPT ![r] = "write_table"]
    /\ UNCHANGED <<task_upload, up_tries, up_pc, tmpShared, artifact,
                   datasetExists, table, job, calls, error, dsAtInvoke>>

\* pq.write_table opens PARQUET_FILE for writing: the file is truncated, and
\* every other writer of the file loses what it had written.
GenerateOpen(r) ==
    /\ task_generate[r] = "running"
    /\ gen_pc[r] = "write_table"
    /\ artifact' = PartialFile
    /\ gen_pc' = [q \in Runs |->
                    IF q = r THEN "writing"
                    ELSE IF gen_pc[q] = "writing" THEN "writing_raced"
                    ELSE gen_pc[q]]
    /\ UNCHANGED <<schedVars, up_pc, tmpShared, datasetExists, table, job,
                   calls, error, dsAtInvoke>>

\* pq.write_table completes.  A writer whose file was truncated under it by
\* another run leaves either a complete or a corrupt file.
GenerateClose(r) ==
    /\ task_generate[r] = "running"
    /\ gen_pc[r] \in {"writing", "writing_raced"}
    /\ artifact' \in (IF gen_pc[r] = "writing_raced"
                      THEN {PartialFile, ParquetFile(SampleFrame)}
                      ELSE {ParquetFile(SampleFrame)})
    /\ gen_pc' = [gen_pc EXCEPT ![r] = "idle"]
    /\ task_generate' = [task_generate EXCEPT ![r] = "success"]
    /\ UNCHANGED <<task_upload, gen_tries, up_tries, up_pc, tmpShared,
                   datasetExists, table, job, calls, error, dsAtInvoke>>

\* A filesystem or encoding error escapes generate_parquet.
GenerateFail(r) ==
    /\ task_generate[r] = "running"
    /\ gen_pc[r] \in {"write_table", "writing", "writing_raced"}
    /\ gen_pc' = [gen_pc EXCEPT ![r] = "idle"]
    /\ task_generate' = [task_generate EXCEPT ![r] = AfterFailure(gen_tries[r])]
    /\ UNCHANGED <<task_upload, gen_tries, up_tries, up_pc, tmpShared, artifact,
                   datasetExists, table, job, calls, error, dsAtInvoke>>

(***************************************************************************)
(* upload_parquet_to_bigquery                                              *)
(***************************************************************************)

\* The file the loader's open(PARQUET_FILE, 'rb') sees: the producer's file
\* when both tasks share /tmp, nothing when each task has its own filesystem.
LoaderFile == IF tmpShared THEN artifact ELSE NoFile

\* faulty variant: open() succeeds on a missing file
CanOpen_Always(f) == TRUE

\* open(PARQUET_FILE, 'rb') raises FileNotFoundError unless the file exists
CanOpen(f) == f.state # "absent"

\* client.get_dataset: NotFound when the dataset is absent; an error that does
\* not depend on the dataset (permission denied, and likewise a transport
\* error) whatever the dataset's state.
LookupResults(exists) ==
    IF exists THEN {"ok", "Forbidden"} ELSE {"NotFound", "Forbidden"}

\* faulty variant: except NotFound
Caught_NotFoundOnly(err) == err = "NotFound"

\* the bare `except:` around get_dataset catches every exception
Caught(err) == TRUE

\* faulty variant: the dataset is created without looking at the lookup's outcome
AfterLookup_AlwaysCreate(result) == "create_dataset"

\* faulty variant: the except branch does not create the dataset
AfterLookup_NeverCreate(result) == "load"

\* try: get_dataset ... except: create_dataset; then the load
AfterLookup(result) == IF result = "ok" THEN "load" ELSE "create_dataset"

\* client.create_dataset(dataset, timeout=30), exists_ok left at False:
\* Conflict when the dataset exists.
CreateResults(exists) ==
    IF exists THEN {"Conflict"} ELSE {"ok", "Forbidden"}

\* client.load_table_from_file: uploads the file and starts the load job
LoadResults(exists) ==
    IF exists THEN {"ok", "ServiceUnavailable"} ELSE {"NotFound"}

\* faulty variant: job.result() returns without waiting
ResultReady_NoWait(state) == TRUE

\* job.result() blocks until the job is in a terminal state
ResultReady(state) == state \in {"done", "failed"}

\* An exception escapes upload_parquet_to_bigquery: the attempt fails.
UploadRaises(r, err) ==
    /\ task_upload' = [task_upload EXCEPT ![r] = AfterFailure(up_tries[r])]
    /\ up_pc' = [up_pc EXCEPT ![r] = "idle"]
    /\ error' = [error EXCEPT ![r] = err]
    /\ dsAtInvoke' = [dsAtInvoke EXCEPT ![r] = FALSE]

\* The scheduler starts an attempt of upload_to_bigquery; the function
\* builds its client (no remote call yet).
StartUpload(r) ==
    /\ task_upload[r] \in {"none", "up_for_retry"}
    /\ UpstreamSucceeded(r)
    /\ task_upload' = [task_upload EXCEPT ![r] = "running"]
    /\ up_tries' = [up_tries EXCEPT ![r] = @ + 1]
    /\ up_pc' = [up_pc EXCEPT ![r] = "get_dataset"]
    /\ calls' = [calls EXCEPT ![r] = <<>>]
    /\ job' = [job EXCEPT ![r] = NoJob]
    /\ error' = [error EXCEPT ![r] = "none"]
    /\ dsAtInvoke' = [dsAtInvoke EXCEPT ![r] = datasetExists]
    /\ UNCHANGED <<task_generate, gen_tries, gen_pc, tmpShared, artifact,
                   datasetExists, table>>

\* The upstream task failed: the loader is never run.
MarkUpstreamFailed(r) ==
    /\ task_upload[r] = "none"
    /\ task_generate[r] = "failed"
    /\ task_upload' = [task_upload EXCEPT ![r] = "upstream_failed"]
    /\ UNCHANGED <<task_generate, gen_tries, up_tries, gen_pc, up_pc, tmpShared,
                   artifact, datasetExists, table, job, calls, error,
                   dsAtInvoke>>

\* try: client.get_dataset(dataset_id) except: ...
GetDataset(r) ==
    /\ task_upload[r] = "running"
    /\ up_pc[r] = "get_dataset"
    /\ \E res \in LookupResults(datasetExists) :
         /\ calls' = [calls EXCEPT ![r] = Append(@, Call("get_dataset", res))]
         /\ IF res = "ok" \/ Caught(res)
            THEN /\ up_pc' = [up_pc EXCEPT ![r] = AfterLookup(res)]
                 /\ UNCHANGED <<task_upload, error, dsAtInvoke>>
            ELSE UploadRaises(r, res)
    /\ UNCHANGED <<task_generate, gen_tries, up_tries, gen_pc, tmpShared,
                   artifact, datasetExists, table, job>>

\* client.create_dataset(dataset, timeout=30)
CreateDataset(r) ==
    /\ task_upload[r] = "running"
    /\ up_pc[r] = "create_dataset"
    /\ \E res \in CreateResults(datasetExists) :
         /\ calls' = [calls EXCEPT ![r] = Append(@, Call("create_dataset", res))]
         /\ IF res = "ok"
            THEN /\ datasetExists' = TRUE
                 /\ up_pc' = [up_pc EXCEPT ![r] = "load"]
                 /\ UNCHANGED <<task_upload, error, dsAtInvoke>>
            ELSE /\ UploadRaises(r, res)
                 /\ UNCHANGED datasetExists
    /\ UNCHANGED <<task_generate, gen_tries, up_tries, gen_pc, tmpShared,
                   artifact, table, job>>

\* with open(PARQUET_FILE, 'rb') as source_file:
\*     job = client.load_table_from_file(source_file, table_id, job_config)
LoadTableFromFile(r) ==
    /\ task_upload[r] = "running"
    /\ up_pc[r] = "load"
    /\ IF ~CanOpen(LoaderFile)
       THEN /\ UploadRaises(r, "FileNotFoundError")
            /\ UNCHANGED <<calls, job>>
       ELSE \E res \in LoadResults(datasetExists) :
              /\ calls' = [calls EXCEPT ![r] =
                             Append(@, Call("load_table_from_file", res))]
              /\ IF res = "ok"
                 THEN /\ job' = [job EXCEPT ![r] =
                                   [state |-> "running", payload |-> LoaderFile]]
                      /\ up_pc' = [up_pc EXCEPT ![r] = "result"]
                      /\ dsAtInvoke' = [dsAtInvoke EXCEPT ![r] = FALSE]
                      /\ UNCHANGED <<task_upload, error>>
                 ELSE /\ UploadRaises(r, res)
                      /\ UNCHANGED job
    /\ UNCHANGED <<task_generate, gen_tries, up_tries, gen_pc, tmpShared,
                   artifact, datasetExists, table>>

\* The warehouse runs the load job: a file that is no valid parquet fails
\* the job, a valid one replaces the table contents or fails remotely.
JobRun(r) ==
    /\ job[r].state = "running"
    /\ \/ /\ job[r].payload.state = "complete"
          /\ job' = [job EXCEPT ![r].state = "done"]
          /\ table' = ApplyLoad(table, DecodeRows(job[r].payload.data))
       \/ /\ job' = [job EXCEPT ![r].state = "failed"]
          /\ UNCHANGED table
    /\ UNCHANGED <<schedVars, gen_pc, up_pc, tmpShared, artifact, datasetExists,
                   calls, error, dsAtInvoke>>

\* job.result()  # Wait for the job to complete
Result(r) ==
    /\ task_upload[r] = "running"
    /\ up_pc[r] = "result"
    /\ ResultReady(job[r].state)
    /\ IF job[r].state = "failed"
       THEN /\ calls' = [calls EXCEPT ![r] = Append(@, Call("result", "BadRequest"))]
            /\ UploadRaises(r, "BadRequest")
       ELSE /\ calls' = [calls EXCEPT ![r] = Append(@, Call("result", "ok"))]
            /\ task_upload' = [task_upload EXCEPT ![r] = "success"]
            /\ up_pc' = [up_pc EXCEPT ![r] = "idle"]
            /\ UNCHANGED <<error, dsAtInvoke>>
    /\ UNCHANGED <<task_generate, gen_tries, up_tries, gen_pc, tmpShared,
                   artifact, datasetExists, table, job>>

(***************************************************************************)
(* Specifications                                                          *)
(***************************************************************************)
RunNext(r) ==
    \/ StartGenerate(r)
    \/ GenerateOpen(r)
    \/ GenerateClose(r)
    \/ GenerateFail(r)
    \/ StartUpload(r)
    \/ MarkUpstreamFailed(r)
    \/ GetDataset(r)
    \/ CreateDataset(r)
    \/ LoadTableFromFile(r)
    \/ JobRun(r)
    \/ Result(r)

Next == \E r \in Runs : RunNext(r)

Spec == Init /\ [][Next]_vars

\* The scheduler keeps running every DAG run, and the warehouse every job.
FairSpec == Spec /\ \A r \in Runs : WF_vars(RunNext(r))

(***************************************************************************)
(* The run's state as the scheduler reports it.                            *)
(***************************************************************************)
RunState(r) ==
    IF task_generate[r] = "failed" \/ task_upload[r] = "failed" THEN "failed"
    ELSE IF task_generate[r] = "none" THEN "pending"
    ELSE IF task_generate[r] \in {"running", "up_for_retry"} THEN "producer_running"
    ELSE IF task_upload[r] = "none" THEN "producer_done"
    ELSE IF task_upload[r] \in {"running", "up_for_retry"} THEN "loader_running"
    ELSE "loader_done"

\* Transitions of a run's state in one step of the system.
NextRunStates(s) ==
    CASE s = "pending" -> {"pending", "producer_running"}
      [] s = "producer_running" -> {"producer_running", "producer_done", "failed"}
      [] s = "producer_done" -> {"producer_done", "loader_running"}
      [] s = "loader_running" -> {"loader_running", "loader_done", "failed"}
      [] s = "loader_done" -> {"loader_done"}
      [] s = "failed" -> {"failed"}

TypeOK ==
    /\ \A r \in Runs :
         /\ task_generate[r] \in {"none", "running", "up_for_retry", "success", "failed"}
         /\ task_upload[r] \in {"none", "running", "up_for_retry", "success",
                                "failed", "upstream_failed"}
         /\ gen_tries[r] \in 0..(Retries + 1)
         /\ up_tries[r] \in 0..(Retries + 1)
    /\ artifact.state \in {"absent", "partial", "complete"}
    /\ datasetExists \in BOOLEAN

(***************************************************************************)
(* Properties                                                              *)
(***************************************************************************)

\* The three rows of the sample data.
ExpectedRows ==
    << <<"Alice", 25, "New York">>,
       <<"Bob", 30, "Los Angeles">>,
       <<"Charlie", 35, "Chicago">> >>

\* Number of calls of `op` made by the current loader attempt of run r.
CallsOf(r, op) == Cardinality({i \in DOMAIN calls[r] : calls[r][i].op = op})

\* The loader of run r has been invoked and its last attempt has ended.
AttemptOver(r) == up_tries[r] > 0 /\ task_upload[r] # "running"

LookupFailed(r) == calls[r] # <<>> /\ calls[r][1].result # "ok"

\* C1: the loader is invoked only after the producer of the same run has
\* succeeded: whenever the loader of a run is running, waiting for its retry
\* or finished, or has made any warehouse call, the producer of that run is in
\* state success; a run whose producer failed never invokes its loader and
\* makes no warehouse call.
C1_LoaderOnlyAfterProducer ==
    \A r \in Runs :
      /\ (\/ task_upload[r] \in {"running", "up_for_retry", "success", "failed"}
          \/ up_tries[r] > 0
          \/ calls[r] # <<>>
          \/ job[r] # NoJob)
         => task_generate[r] = "success"
      /\ task_generate[r] = "failed"
         => /\ task_upload[r] \in {"none", "upstream_failed"}
            /\ up_tries[r] = 0
            /\ calls[r] = <<>>

\* C1 witness: one run loaded its table after a retried producer, another run
\* had its loader skipped because its producer failed.
C1_Witness ==
    \E r, q \in Runs :
      /\ task_upload[r] = "success" /\ gen_tries[r] = 2
      /\ task_upload[q] = "upstream_failed"

\* C2 as stated: a loader attempt that found the artifact absent ended with
\* FileNotFoundError and made no warehouse call.
C2_NoRemoteCallsWhenArtifactAbsent ==
    \A r \in Runs :
      (AttemptOver(r) /\ LoaderFile.state = "absent")
        => (error[r] = "FileNotFoundError" /\ calls[r] = <<>>)

\* C2 as amended: a loader attempt that finds the artifact absent never
\* submits a load job and never succeeds; it calls get_dataset first, and it
\* ends with FileNotFoundError unless its create_dataset call raised.
C2_NoLoadJobWhenArtifactAbsent ==
    \A r \in Runs :
      (up_tries[r] > 0 /\ LoaderFile.state = "absent")
        => /\ job[r] = NoJob
           /\ CallsOf(r, "load_table_from_file") = 0
           /\ task_upload[r] # "success"
           /\ AttemptOver(r)
              => /\ calls[r] # <<>>
                 /\ calls[r][1].op = "get_dataset"
                 /\ \/ error[r] = "FileNotFoundError"
                    \/ /\ calls[r][Len(calls[r])].op = "create_dataset"
                       /\ calls[r][Len(calls[r])].result = error[r]
                       /\ error[r] # "ok"

\* C2 witness: an attempt created the dataset and then failed on the missing
\* file.
C2_Witness ==
    \E r \in Runs :
      /\ LoaderFile.state = "absent"
      /\ error[r] = "FileNotFoundError"
      /\ calls[r] = <<Call("get_dataset", "NotFound"), Call("create_dataset", "ok")>>

\* C3: a loader whose lookup reported the dataset absent does not fail
\* because the dataset exists by the time it calls create_dataset.
C3_AlreadyExistsTolerated ==
    \A r \in Runs :
      ~ /\ Len(calls[r]) >= 2
        /\ calls[r][1] = Call("get_dataset", "NotFound")
        /\ calls[r][2] = Call("create_dataset", "Conflict")

\* C4: a loader attempt whose lookup succeeded (the dataset exists) makes no
\* create_dataset call, does not fail with an error of the dataset stage, and
\* goes on to the load.
C4_ExistingDatasetNotCreated ==
    \A r \in Runs :
      (calls[r] # <<>> /\ calls[r][1] = Call("get_dataset", "ok"))
        => /\ datasetExists
           /\ CallsOf(r, "create_dataset") = 0
           /\ up_pc[r] \in {"load", "result", "idle"}
           /\ error[r] \notin {"NotFound", "Forbidden", "Conflict"}
           /\ (task_upload[r] = "running" /\ Len(calls[r]) = 1) => up_pc[r] = "load"

\* C4 witness: a loader found the dataset and completed its load.
C4_Witness ==
    \E r \in Runs :
      /\ calls[r] # <<>>
      /\ calls[r][1] = Call("get_dataset", "ok")
      /\ task_upload[r] = "success"

\* C5 as stated: a loader attempt invoked while the dataset was absent has
\* made exactly one create_dataset call when it reaches the load, and no load
\* job is submitted while the dataset is absent.
C5_OneCreateWhenAbsentAtInvoke ==
    \A r \in Runs :
      /\ (task_upload[r] = "running" /\ up_pc[r] = "load" /\ ~dsAtInvoke[r])
           => CallsOf(r, "create_dataset") = 1
      /\ CallsOf(r, "load_table_from_file") > 0 => datasetExists

\* C5 as amended: a loader attempt whose lookup failed, as it does whenever
\* the dataset is absent at the lookup, makes exactly one create_dataset call,
\* right after the lookup and before any load; an attempt makes at most one
\* create_dataset call; no load job is submitted while the dataset is absent.
C5_OneCreateWhenLookupFails ==
    \A r \in Runs :
      /\ CallsOf(r, "create_dataset") <= 1
      /\ (LookupFailed(r) /\ up_pc[r] # "create_dataset")
           => /\ CallsOf(r, "create_dataset") = 1
              /\ calls[r][2].op = "create_dataset"
      /\ up_pc[r] \in {"load", "result"} => datasetExists
      /\ CallsOf(r, "load_table_from_file") > 0 => datasetExists

\* C5 witness: lookup NotFound, dataset created, load submitted.
C5_Witness ==
    \E r \in Runs :
      /\ Len(calls[r]) >= 3
      /\ calls[r][1] = Call("get_dataset", "NotFound")
      /\ calls[r][2] = Call("create_dataset", "ok")
      /\ calls[r][3] = Call("load_table_from_file", "ok")

\* C6: once a load job has completed, the table holds exactly one copy of the
\* rows of the loaded artifact, however many loads have completed and whatever
\* the table held before.
C6_ReplaceNotAccumulate ==
    \A r \in Runs :
      job[r].state = "done"
        => /\ table = DecodeRows(job[r].payload.data)
           /\ Len(table) = Len(job[r].payload.data.name)

\* C6 witness: two loads have completed, one of them in a retried attempt.
C6_Witness ==
    \E r, q \in Runs :
      /\ r # q
      /\ job[r].state = "done" /\ job[q].state = "done"
      /\ up_tries[r] = 2

\* C7: when a run that is the only one started reaches loader_done, the
\* artifact decodes to exactly the three sample rows and the table holds
\* exactly those rows.
C7_SingleRunLoadsSampleRows ==
    \A r \in Runs :
      (RunState(r) = "loader_done" /\ \A q \in Runs \ {r} : RunState(q) = "pending")
        => /\ artifact.state = "complete"
           /\ DecodeRows(artifact.data) = ExpectedRows
           /\ table = ExpectedRows

\* C7 witness: a single run reached loader_done.
C7_Witness ==
    \E r \in Runs :
      /\ RunState(r) = "loader_done"
      /\ \A q \in Runs \ {r} : RunState(q) = "pending"
      /\ table = ExpectedRows

\* C8: every run moves along pending, producer_running, producer_done,
\* loader_running, loader_done, or to failed; no task is attempted more than
\* twice; a task waits for a retry only after its first attempt and is failed
\* exactly after its second; and every run eventually is loader_done or failed.
C8_RunLifecycle ==
    /\ [][\A r \in Runs : RunState(r)' \in NextRunStates(RunState(r))]_vars
    /\ [](\A r \in Runs :
            /\ gen_tries[r] <= 2 /\ up_tries[r] <= 2
            /\ task_generate[r] = "up_for_retry" => gen_tries[r] = 1
            /\ task_upload[r] = "up_for_retry" => up_tries[r] = 1
            /\ task_generate[r] = "failed" => gen_tries[r] = 2
            /\ task_upload[r] = "failed" => up_tries[r] = 2
            /\ RunState(r) = "failed"
                 <=> \/ (gen_tries[r] = 2 /\ task_generate[r] \notin {"running", "success"})
                     \/ (up_tries[r] = 2 /\ task_upload[r] \notin {"running", "success"}))
    /\ \A r \in Runs : <>(RunState(r) \in {"loader_done", "failed"})

\* C8 witness: one run failed after two loader attempts, another is
\* loader_done.
C8_Witness ==
    \E r, q \in Runs :
      /\ RunState(r) = "failed" /\ up_tries[r] = 2
      /\ RunState(q) = "loader_done"

\* C9: a failed get_dataset never ends the loader attempt: whatever the
\* error, and whether or not the dataset exists, the next call is
\* create_dataset.
C9_LookupErrorMeansCreate ==
    \A r \in Runs :
      LookupFailed(r)
        => /\ calls[r][1].op = "get_dataset"
           /\ Len(calls[r]) = 1
                => (task_upload[r] = "running" /\ up_pc[r] = "create_dataset")
           /\ Len(calls[r]) >= 2 => calls[r][2].op = "create_dataset"

\* C9 witness: the lookup failed on an existing dataset (permission denied)
\* and the loader went on to create_dataset, which raised Conflict.
C9_Witness ==
    \E r \in Runs :
      calls[r] = <<Call("get_dataset", "Forbidden"), Call("create_dataset", "Conflict")>>

\* C10: the loader succeeds only with its load job completed, never while the
\* job is running; a failed job or a failed submission fails the attempt with
\* that error.
C10_SuccessOnlyAfterJobDone ==
    \A r \in Runs :
      /\ task_upload[r] = "success"
           => /\ job[r].state = "done"
              /\ calls[r][Len(calls[r])] = Call("result", "ok")
      /\ (AttemptOver(r) /\ job[r].state = "failed")
           => /\ task_upload[r] \in {"up_for_retry", "failed"}
              /\ error[r] = "BadRequest"
      /\ (AttemptOver(r) /\ CallsOf(r, "load_table_from_file") > 0
            /\ calls[r][Len(calls[r])].op = "load_table_from_file")
           => /\ task_upload[r] \in {"up_for_retry", "failed"}
              /\ error[r] = calls[r][Len(calls[r])].result
              /\ error[r] # "ok"
              /\ job[r] = NoJob
      /\ AttemptOver(r) => job[r].state # "running"

\* C10 witness: one loader returned after its job completed, another was
\* failed by its job.
C10_Witness ==
    \E r, q \in Runs :
      /\ task_upload[r] = "success" /\ job[r].state = "done"
      /\ error[q] = "BadRequest" /\ job[q].state = "failed"
====
